---- MODULE Spec2Model ----
(***************************************************************************)
(* A model of the Optimizer repository: the StaticAnalyzer detector        *)
(* (src/static_analysis.py), the RefactoringEngine rewrite pass            *)
(* (src/utils/refactoring_engine.py), the part of                          *)
(* PythonOptimizer.optimize (src/optimizer.py) that runs them, and the     *)
(* VectorizationTransformer (src/utils/VectorizationTransformer.py).       *)
(*                                                                         *)
(* Syntax trees are records tagged by "kind", after the classes of         *)
(* Python's ast module.  Operator nodes (ast.Add) are kept as strings and  *)
(* context nodes (ast.Load) are left out of the records: the code never    *)
(* inspects them as nodes.  Only the parent links name them, as objects    *)
(* the parser shares between the nodes that hold them.                     *)
(***************************************************************************)
EXTENDS Integers, Sequences, FiniteSets, TLC

VARIABLES
    source,     \* the program text handed to optimize(), as a statement list
    env,        \* the variable values the program text is run from
    analyzer,   \* the StaticAnalyzer instance: its three finding lists
    analyzed,   \* TRUE once StaticAnalyzer.analyze has returned
    trees,      \* trees[1] = ast.parse(source); trees[k+1] = tree after pass k
    logs,       \* logs[k] = the visit_For calls of pass k, in call order
    returned,   \* what each analyze call on the instance returned, as it was then
    pc,         \* the step PythonOptimizer.optimize is at ("idle": not running)
    trace,      \* the collaborators optimize has called and the outputs it made
    error,      \* the exception that ended optimize, NoError if none
    profiles,   \* the texts the two profiling calls returned
    files,      \* the files optimize has written
    transformer,  \* the VectorizationTransformer instance: its import flag
    visits      \* the visit calls made on the instance: module, tree, log

vars == <<source, env, analyzer, analyzed, trees, logs, returned, pc, trace, error,
          profiles, files, transformer, visits>>

---------------------------------------------------------------------------
(* Bounds of the model *)

MaxStmts == 3      \* top-level statements of an input module
MaxPasses == 2     \* consecutive rewrite passes over one tree
MaxNest == 3       \* depth of the deepest loop nest of the analysed inputs
MaxCalls == 2      \* calls made on one StaticAnalyzer or VectorizationTransformer

---------------------------------------------------------------------------
(* Expression nodes *)

Name(id) == [kind |-> "Name", id |-> id]
Constant(v) == [kind |-> "Constant", value |-> v]
Str(s) == [kind |-> "Str", s |-> s]
Call(func, args) == [kind |-> "Call", func |-> func, args |-> args]
Attribute(value, attr) == [kind |-> "Attribute", value |-> value, attr |-> attr]
Subscript(value, slice) == [kind |-> "Subscript", value |-> value, slice |-> slice]
BinOp(left, op, right) == [kind |-> "BinOp", left |-> left, op |-> op, right |-> right]
TupleNode(elts) == [kind |-> "Tuple", elts |-> elts]
alias(name, asname) == [kind |-> "alias", name |-> name, asname |-> asname]

(* Statement nodes.  lineno = 0 stands for a node that carries no line   *)
(* (program text before parsing, or a node the engine built without one) *)
(* and col_offset is the column the statement starts in.                 *)

For(target, iter, body, orelse) ==
    [kind |-> "For", target |-> target, iter |-> iter, body |-> body,
     orelse |-> orelse, lineno |-> 0, col_offset |-> 0]
Assign(targets, value) ==
    [kind |-> "Assign", targets |-> targets, value |-> value,
     vectorized |-> FALSE, lineno |-> 0, col_offset |-> 0]
AugAssign(target, op, value) ==
    [kind |-> "AugAssign", target |-> target, op |-> op, value |-> value,
     lineno |-> 0, col_offset |-> 0]
Import(names) ==
    [kind |-> "Import", names |-> names, lineno |-> 0, col_offset |-> 0]
Expr(value) == [kind |-> "Expr", value |-> value, lineno |-> 0, col_offset |-> 0]
FunctionDef(name, body) ==
    [kind |-> "FunctionDef", name |-> name, body |-> body, lineno |-> 0,
     col_offset |-> 0]
If(test, body, orelse) ==
    [kind |-> "If", test |-> test, body |-> body, orelse |-> orelse,
     lineno |-> 0, col_offset |-> 0]
Module(body) == [kind |-> "Module", body |-> body]

(* a line of program text that is no statement of the grammar (`for i in`) *)
Unparsable == [kind |-> "Unparsable", lineno |-> 0, col_offset |-> 0]

IsFor(n) == n.kind = "For"

(* ast.iter_child_nodes: the child nodes of a node, in field order *)
Children(n) ==
    CASE n.kind = "Module" -> n.body
      [] n.kind = "For" -> <<n.target, n.iter>> \o n.body \o n.orelse
      [] n.kind = "Assign" -> n.targets \o <<n.value>>
      [] n.kind = "AugAssign" -> <<n.target, n.value>>
      [] n.kind = "Import" -> n.names
      [] n.kind = "Expr" -> <<n.value>>
      [] n.kind = "FunctionDef" -> n.body
      [] n.kind = "If" -> <<n.test>> \o n.body \o n.orelse
      [] n.kind = "Call" -> <<n.func>> \o n.args
      [] n.kind = "Attribute" -> <<n.value>>
      [] n.kind = "Subscript" -> <<n.value, n.slice>>
      [] n.kind = "BinOp" -> <<n.left, n.right>>
      [] n.kind = "Tuple" -> n.elts
      [] OTHER -> <<>>

---------------------------------------------------------------------------
(* ast.parse: the tree of a program text.  Every statement of the text   *)
(* sits on its own line, a compound statement's body on the lines after  *)
(* its header and an else clause after a line of its own; a body is      *)
(* indented by four columns.  n is the line and col the column the       *)
(* statement starts at.                                                  *)

RECURSIVE NumberStmts(_, _, _)
NumberStmt(s, n, col) ==
    CASE s.kind = "For" \/ s.kind = "If" ->
            LET b == NumberStmts(s.body, n + 1, col + 4)
                e == IF s.orelse = <<>> THEN [out |-> <<>>, next |-> b.next]
                     ELSE NumberStmts(s.orelse, b.next + 1, col + 4)
            IN [out |-> [s EXCEPT !.lineno = n, !.col_offset = col,
                                  !.body = b.out, !.orelse = e.out],
                next |-> e.next]
      [] s.kind = "FunctionDef" ->
            LET b == NumberStmts(s.body, n + 1, col + 4)
            IN [out |-> [s EXCEPT !.lineno = n, !.col_offset = col, !.body = b.out],
                next |-> b.next]
      [] OTHER -> [out |-> [s EXCEPT !.lineno = n, !.col_offset = col],
                   next |-> n + 1]

NumberStmts(stmts, n, col) ==
    IF stmts = <<>> THEN [out |-> <<>>, next |-> n]
    ELSE LET h == NumberStmt(Head(stmts), n, col)
             t == NumberStmts(Tail(stmts), h.next, col)
         IN [out |-> <<h.out>> \o t.out, next |-> t.next]

Parse(text) == Module(NumberStmts(text, 1, 0).out)

(* the lines ast.parse cannot parse, first to last *)
RECURSIVE BadLines(_)
BadLines(stmts) ==
    IF stmts = <<>> THEN <<>>
    ELSE LET s == Head(stmts)
             here == IF s.kind = "Unparsable" THEN <<s.lineno>>
                     ELSE IF s.kind \in {"For", "If"}
                          THEN BadLines(s.body) \o BadLines(s.orelse)
                          ELSE IF s.kind = "FunctionDef" THEN BadLines(s.body)
                               ELSE <<>>
         IN here \o BadLines(Tail(stmts))

Valid(text) == BadLines(Parse(text).body) = <<>>

(* exceptions: the class and the line the exception names *)
NoError == [type |-> "None", lineno |-> 0]
SyntaxError(lineno) == [type |-> "SyntaxError", lineno |-> lineno]
TypeError(lineno) == [type |-> "TypeError", lineno |-> lineno]

(* the SyntaxError ast.parse raises on a text that is not valid *)
parse_error(text) == SyntaxError(BadLines(Parse(text).body)[1])

---------------------------------------------------------------------------
(* RefactoringEngine (src/utils/refactoring_engine.py).                   *)
(*                                                                         *)
(* The engine mutates module.body while NodeTransformer.generic_visit is   *)
(* iterating over that same list.  The state threaded through a visit is   *)
(*   body : module.body as it stands (the live list being iterated),      *)
(*   pos  : the place in body of the top-level statement being visited,    *)
(*   log  : the visit_For calls made so far.                               *)
(* Every node handed to find_module_node is a node of the parsed tree,     *)
(* which _set_parents linked up to the module, so the walk always ends at  *)
(* the module whose body is st.body.                                       *)

IsImportOf(stmt, name) ==
    /\ stmt.kind = "Import"
    /\ \E k \in 1..Len(stmt.names) : stmt.names[k].name = name

HasImport(body, name) == \E k \in 1..Len(body) : IsImportOf(body[k], name)

(* list.insert(idx, x), idx counted from 0 *)
ListInsert(list, idx, x) ==
    SubSeq(list, 1, idx) \o <<x>> \o SubSeq(list, idx + 1, Len(list))

IsDocstring(stmt) == stmt.kind = "Expr" /\ stmt.value.kind = "Str"

(* find_module_node: the walk up the parent chain, see above *)
find_module_node(st) == Module(st.body)

(* the loop of ensure_numpy_import that picks the insertion index *)
insert_idx(body) ==
    LET nondoc == {k \in 1..Len(body) : ~IsDocstring(body[k])}
    IN IF nondoc = {} THEN 0
       ELSE (CHOOSE k \in nondoc : \A m \in nondoc : k <= m) - 1

(* ensure_numpy_import looking for the import only where it would put it *)
(* instead of through the whole module body                              *)
ensure_numpy_import_at_insert_idx(body) ==
    IF body # <<>> /\ IsImportOf(body[insert_idx(body) + 1], "numpy") THEN body
    ELSE ListInsert(body, insert_idx(body), Import(<<alias("numpy", "np")>>))

ensure_numpy_import(body) ==
    IF HasImport(body, "numpy") THEN body
    ELSE ListInsert(body, insert_idx(body), Import(<<alias("numpy", "np")>>))

ensure_itertools_import(body) ==
    IF HasImport(body, "itertools") THEN body
    ELSE ListInsert(body, 0, Import(<<alias("itertools", "")>>))

(* an insertion into module.body in front of the statement being visited *)
(* moves that statement one place up the list                            *)
Inserted(st, body2) ==
    [st EXCEPT !.body = body2,
               !.pos = IF Len(body2) > Len(st.body) THEN st.pos + 1 ELSE st.pos]

RECURSIVE contains_numpy_usage(_)
contains_numpy_usage(node) ==
    \/ /\ node.kind = "Attribute"
       /\ node.value.kind = "Name"
       /\ node.value.id = "np"
    \/ \E k \in 1..Len(Children(node)) : contains_numpy_usage(Children(node)[k])

(* flatten_nested_loop declining a pair whose two loops bind one name *)
flatten_nested_loop_distinct_names(outer_loop, st) ==
    LET inner_loops == SelectSeq(outer_loop.body, IsFor)
        inner_loop == inner_loops[1]
        RECURSIVE new_body(_)
        new_body(stmts) ==
            IF stmts = <<>> THEN <<>>
            ELSE (IF IsFor(Head(stmts)) THEN inner_loop.body ELSE <<Head(stmts)>>)
                 \o new_body(Tail(stmts))
    IN IF Len(inner_loops) # 1
       THEN [res |-> outer_loop, st |-> st, fired |-> FALSE]
       ELSE IF /\ outer_loop.target.kind = "Name"
               /\ outer_loop.target # inner_loop.target
               /\ inner_loop.target.kind = "Name"
               /\ outer_loop.iter.kind = "Call"
               /\ inner_loop.iter.kind = "Call"
            THEN [res |-> [For(TupleNode(<<outer_loop.target, inner_loop.target>>),
                               Call(Attribute(Name("itertools"), "product"),
                                    <<outer_loop.iter, inner_loop.iter>>),
                               new_body(outer_loop.body),
                               <<>>)
                           EXCEPT !.lineno = outer_loop.lineno,
                                  !.col_offset = outer_loop.col_offset],
                  st |-> Inserted(st, ensure_itertools_import(find_module_node(st).body)),
                  fired |-> TRUE]
            ELSE [res |-> outer_loop, st |-> st, fired |-> FALSE]

(* flatten_nested_loop carrying the outer loop's else clause over *)
flatten_nested_loop_keep_else(outer_loop, st) ==
    LET inner_loops == SelectSeq(outer_loop.body, IsFor)
        inner_loop == inner_loops[1]
        RECURSIVE new_body(_)
        new_body(stmts) ==
            IF stmts = <<>> THEN <<>>
            ELSE (IF IsFor(Head(stmts)) THEN inner_loop.body ELSE <<Head(stmts)>>)
                 \o new_body(Tail(stmts))
    IN IF Len(inner_loops) # 1
       THEN [res |-> outer_loop, st |-> st, fired |-> FALSE]
       ELSE IF /\ outer_loop.target.kind = "Name"
               /\ inner_loop.target.kind = "Name"
               /\ outer_loop.iter.kind = "Call"
               /\ inner_loop.iter.kind = "Call"
            THEN [res |-> [For(TupleNode(<<outer_loop.target, inner_loop.target>>),
                               Call(Attribute(Name("itertools"), "product"),
                                    <<outer_loop.iter, inner_loop.iter>>),
                               new_body(outer_loop.body),
                               outer_loop.orelse)
                           EXCEPT !.lineno = outer_loop.lineno,
                                  !.col_offset = outer_loop.col_offset],
                  st |-> Inserted(st, ensure_itertools_import(find_module_node(st).body)),
                  fired |-> TRUE]
            ELSE [res |-> outer_loop, st |-> st, fired |-> FALSE]

flatten_nested_loop(outer_loop, st) ==
    LET inner_loops == SelectSeq(outer_loop.body, IsFor)
        inner_loop == inner_loops[1]
        RECURSIVE new_body(_)
        new_body(stmts) ==
            IF stmts = <<>> THEN <<>>
            ELSE (IF IsFor(Head(stmts)) THEN inner_loop.body ELSE <<Head(stmts)>>)
                 \o new_body(Tail(stmts))
    IN IF Len(inner_loops) # 1
       THEN [res |-> outer_loop, st |-> st, fired |-> FALSE]
       ELSE IF /\ outer_loop.target.kind = "Name"
               /\ inner_loop.target.kind = "Name"
               /\ outer_loop.iter.kind = "Call"
               /\ inner_loop.iter.kind = "Call"
            THEN [res |-> [For(TupleNode(<<outer_loop.target, inner_loop.target>>),
                               Call(Attribute(Name("itertools"), "product"),
                                    <<outer_loop.iter, inner_loop.iter>>),
                               new_body(outer_loop.body),
                               <<>>)
                           EXCEPT !.lineno = outer_loop.lineno,
                                  !.col_offset = outer_loop.col_offset],
                  st |-> Inserted(st, ensure_itertools_import(find_module_node(st).body)),
                  fired |-> TRUE]
            ELSE [res |-> outer_loop, st |-> st, fired |-> FALSE]

build_vectorized_code(arr_name, value_node, st) ==
    [res |-> Assign(<<Name(arr_name)>>,
                    BinOp(Call(Attribute(Name("np"), "array"), <<Name(arr_name)>>),
                          "Add", value_node)),
     st |-> Inserted(st, ensure_numpy_import(find_module_node(st).body))]

vectorize_numeric_loop(loop_node, st) ==
    LET stmt == loop_node.body[1]
        target == stmt.targets[1]
        built == build_vectorized_code(target.value.id, stmt.value, st)
    IN IF ~(/\ loop_node.iter.kind = "Call"
            /\ loop_node.iter.func.kind = "Name"
            /\ loop_node.iter.func.id = "range")
       THEN [res |-> loop_node, st |-> st, fired |-> FALSE]
       ELSE IF /\ Len(loop_node.body) = 1
               /\ stmt.kind = "Assign"
               /\ Len(stmt.targets) = 1
               /\ target.kind = "Subscript"
               /\ target.value.kind = "Name"
            THEN [res |-> [built.res EXCEPT !.vectorized = TRUE],
                  st |-> built.st, fired |-> TRUE]
            ELSE [res |-> loop_node, st |-> st, fired |-> FALSE]

RECURSIVE visit(_, _)
RECURSIVE visit_list(_, _)

(* NodeTransformer.generic_visit on a statement below the module: every   *)
(* statement list of the node is replaced, in place, by the results.      *)
generic_visit(node, st) ==
    CASE node.kind = "For" \/ node.kind = "If" ->
            LET b == visit_list(node.body, st)
                e == visit_list(node.orelse, b.st)
            IN [node |-> [node EXCEPT !.body = b.out, !.orelse = e.out], st |-> e.st]
      [] node.kind = "FunctionDef" ->
            LET b == visit_list(node.body, st)
            IN [node |-> [node EXCEPT !.body = b.out], st |-> b.st]
      [] OTHER -> [node |-> node, st |-> st]

(* visit_For trying the rules on the loop before it visits the loop's    *)
(* children, and leaving a replacement unvisited                         *)
visit_For_top_down(outer_loop, st) ==
    LET flattened == flatten_nested_loop(outer_loop, st)
        vectorized == vectorize_numeric_loop(outer_loop, st)
        r == IF flattened.fired THEN flattened ELSE vectorized
        rule == IF flattened.fired THEN "flatten"
                ELSE IF vectorized.fired THEN "vectorize" ELSE "none"
        logged == [r.st EXCEPT !.log = Append(@, [node |-> outer_loop, res |-> r.res,
                                                   rule |-> rule])]
        g == generic_visit(outer_loop, logged)
    IN IF rule # "none" THEN [self |-> outer_loop, res |-> r.res, st |-> logged]
       ELSE [self |-> g.node, res |-> g.node, st |-> g.st]

(* self: the visited node as generic_visit left it (it stays in the list  *)
(* that held it until that list is overwritten); res: the node returned.  *)
visit_For(outer_loop, st) ==
    LET g == generic_visit(outer_loop, st)
        flattened == flatten_nested_loop(g.node, g.st)
        vectorized == vectorize_numeric_loop(g.node, g.st)
        r == IF flattened.fired THEN flattened ELSE vectorized
        rule == IF flattened.fired THEN "flatten"
                ELSE IF vectorized.fired THEN "vectorize" ELSE "none"
    IN [self |-> g.node, res |-> r.res,
        st |-> [r.st EXCEPT !.log = Append(@, [node |-> g.node, res |-> r.res,
                                                rule |-> rule])]]

visit(node, st) ==
    IF node.kind = "For" THEN visit_For(node, st)
    ELSE LET g == generic_visit(node, st)
         IN [self |-> g.node, res |-> g.node, st |-> g.st]

visit_list(stmts, st) ==
    IF stmts = <<>> THEN [out |-> <<>>, st |-> st]
    ELSE LET h == visit(Head(stmts), st)
             t == visit_list(Tail(stmts), h.st)
         IN [out |-> <<h.res>> \o t.out, st |-> t.st]

(* generic_visit on the module: `for value in old_value` walks module.body *)
(* by index while the visits insert imports into it; idx is the iterator's *)
(* index (from 1), new_values the list being collected.                    *)
RECURSIVE module_body_loop(_, _, _, _)
module_body_loop(old_value, idx, new_values, log) ==
    IF idx > Len(old_value) THEN [new_values |-> new_values, log |-> log]
    ELSE LET r == visit(old_value[idx], [body |-> old_value, pos |-> idx, log |-> log])
         IN module_body_loop([r.st.body EXCEPT ![r.st.pos] = r.self],
                             idx + 1, Append(new_values, r.res), r.st.log)

(* visit_Module putting the numpy import in itself after the walk, *)
(* without the look through the imports that are there             *)
visit_Module_insert(node) ==
    LET r == module_body_loop(node.body, 1, <<>>, <<>>)
        visited == Module(r.new_values)
    IN [tree |-> IF contains_numpy_usage(visited)
                 THEN Module(ListInsert(visited.body, insert_idx(visited.body),
                                        Import(<<alias("numpy", "np")>>)))
                 ELSE visited,
        log |-> r.log]

visit_Module(node) ==
    LET r == module_body_loop(node.body, 1, <<>>, <<>>)
        visited == Module(r.new_values)     \* old_value[:] = new_values
    IN [tree |-> IF contains_numpy_usage(visited)
                 THEN Module(ensure_numpy_import(visited.body))
                 ELSE visited,
        log |-> r.log]

---------------------------------------------------------------------------
(* VectorizationTransformer (src/utils/VectorizationTransformer.py).     *)
(*                                                                         *)
(* The instance holds one flag, numpy_import_injected.  The state         *)
(* threaded through a visit is                                             *)
(*   numpy_import_injected : the flag as it stands,                       *)
(*   log : the visit_For calls made so far.                                *)
(* The .parent attributes visit_Module sets are never read by the class.   *)

NewTransformer == [numpy_import_injected |-> FALSE]

(* ast.Constant: number and string literals alike *)
IsConstant(node) == node.kind = "Constant" \/ node.kind = "Str"

is_simple_loop(node) ==
    /\ node.target.kind = "Name"
    /\ node.iter.kind = "Call"
    /\ node.iter.func.kind = "Name"
    /\ node.iter.func.id = "range"
    /\ Len(node.iter.args) = 1
    /\ node.iter.args[1].kind = "Call"
    /\ node.iter.args[1].func.kind = "Name"
    /\ node.iter.args[1].func.id = "len"

get_loop_array(call_node) ==
    LET len_call == call_node.args[1]
    IN IF len_call.args = <<>> THEN ""
       ELSE IF len_call.args[1].kind = "Name" THEN len_call.args[1].id
       ELSE ""

(* the pair (None, None) *)
NoTransform == [transform_type |-> "None", const_expr |-> [kind |-> "None"]]

parse_expression(value_node, arr_name, loop_var) ==
    LET left == value_node.left
        right == value_node.right
        op == value_node.op
    IN IF value_node.kind # "BinOp" THEN NoTransform
       ELSE IF ~(/\ left.kind = "Subscript"
                 /\ left.value.kind = "Name" /\ left.value.id = arr_name
                 /\ left.slice.kind = "Name" /\ left.slice.id = loop_var)
       THEN NoTransform
       ELSE IF ~IsConstant(right) THEN NoTransform
       ELSE CASE op = "Add" -> [transform_type |-> "add", const_expr |-> right]
              [] op = "Sub" -> [transform_type |-> "sub", const_expr |-> right]
              [] op = "Mult" -> [transform_type |-> "mult", const_expr |-> right]
              [] OTHER -> NoTransform

(* the block visit_For builds, lines 94-146 *)
new_body(arr_name, parsed, numpy_import_injected) ==
    (IF ~numpy_import_injected THEN <<Import(<<alias("numpy", "np")>>)>> ELSE <<>>)
    \o <<Assign(<<Name(arr_name)>>,
                Call(Attribute(Name("np"), "array"), <<Name(arr_name)>>))>>
    \o <<Assign(<<Name(arr_name)>>,
                BinOp(Name(arr_name),
                      CASE parsed.transform_type = "add" -> "Add"
                        [] parsed.transform_type = "sub" -> "Sub"
                        [] parsed.transform_type = "mult" -> "Mult",
                      parsed.const_expr))>>

RECURSIVE transformer_visit(_, _)
RECURSIVE transformer_visit_list(_, _)

(* NodeTransformer.generic_visit: a node a visit returns is put in the    *)
(* list in the place of the node visited.                                 *)
transformer_generic_visit(node, t) ==
    CASE node.kind = "For" \/ node.kind = "If" ->
            LET b == transformer_visit_list(node.body, t)
                e == transformer_visit_list(node.orelse, b.t)
            IN [node |-> [node EXCEPT !.body = b.out, !.orelse = e.out], t |-> e.t]
      [] node.kind = "FunctionDef" \/ node.kind = "Module" ->
            LET b == transformer_visit_list(node.body, t)
            IN [node |-> [node EXCEPT !.body = b.out], t |-> b.t]
      [] OTHER -> [node |-> node, t |-> t]

(* visit_For's checks between its generic_visit and the rewrite, lines    *)
(* 55-87: each "return node" is a conjunct that fails                     *)
recognized_loop(node) ==
    LET stmt == node.body[1]
        target == IF stmt.kind = "Assign" THEN stmt.targets[1] ELSE stmt.target
    IN /\ is_simple_loop(node)
       /\ Len(node.body) = 1
       /\ stmt.kind = "Assign" \/ stmt.kind = "AugAssign"
       /\ target.kind = "Subscript" /\ target.value.kind = "Name"
       /\ target.value.id = get_loop_array(node.iter)
       /\ target.slice.kind = "Name" /\ target.slice.id = node.target.id
       /\ parse_expression(stmt.value, target.value.id,
                           node.target.id).transform_type # "None"

(* the block returned for a recognized loop.  ast.copy_location copies   *)
(* nothing onto a Module, which has no position.                         *)
visit_For_block(node, numpy_import_injected) ==
    LET stmt == node.body[1]
        target == IF stmt.kind = "Assign" THEN stmt.targets[1] ELSE stmt.target
    IN Module(new_body(target.value.id,
                       parse_expression(stmt.value, target.value.id, node.target.id),
                       numpy_import_injected))

(* what visit_For returns and the state it leaves *)
visit_For_result(node, t, recognized) ==
    LET res == IF recognized THEN visit_For_block(node, t.numpy_import_injected)
               ELSE node
    IN [res |-> res,
        t |-> [numpy_import_injected |-> t.numpy_import_injected \/ recognized,
               log |-> Append(t.log, [node |-> node, res |-> res,
                                      replaced |-> recognized])]]

(* visit_For once its children are visited *)
visit_For_after(g) == visit_For_result(g.node, g.t, recognized_loop(g.node))

(* node = self.generic_visit(node), then the checks *)
transformer_visit_For(for_node, t0) ==
    visit_For_after(transformer_generic_visit(for_node, t0))

transformer_visit(node, t) ==
    IF node.kind = "For" THEN transformer_visit_For(node, t)
    ELSE LET g == transformer_generic_visit(node, t)
         IN [res |-> g.node, t |-> g.t]

transformer_visit_list(stmts, t) ==
    IF stmts = <<>> THEN [out |-> <<>>, t |-> t]
    ELSE LET h == transformer_visit(Head(stmts), t)
             r == transformer_visit_list(Tail(stmts), h.t)
         IN [out |-> <<h.res>> \o r.out, t |-> r.t]

transformer_visit_Module(self, node) ==
    LET g == transformer_generic_visit(node,
                 [numpy_import_injected |->
                      self.numpy_import_injected \/ HasImport(node.body, "numpy"),
                  log |-> <<>>])
    IN [self |-> [numpy_import_injected |-> g.t.numpy_import_injected],
        tree |-> g.node, log |-> g.t.log]

---------------------------------------------------------------------------
(* StaticAnalyzer (src/static_analysis.py).                               *)
(*                                                                         *)
(* A node is named by its path from the root: the indices, in              *)
(* Children, leading down to it.  analyze sets .parent on every node but   *)
(* the root, so "hasattr(current, 'parent')" is "the path is not empty"    *)
(* and current.parent is the path less its last index.                     *)

RECURSIVE NodeAt(_, _)
NodeAt(root, path) ==
    IF path = <<>> THEN root
    ELSE NodeAt(Children(root)[Head(path)], Tail(path))

ParentPath(path) == SubSeq(path, 1, Len(path) - 1)

(* node.lineno: a statement's own line; an expression of these one-line  *)
(* statements lies on the line of the statement that holds it            *)
RECURSIVE LineAt(_, _)
LineAt(root, path) ==
    IF "lineno" \in DOMAIN NodeAt(root, path) THEN NodeAt(root, path).lineno
    ELSE IF path = <<>> THEN 0 ELSE LineAt(root, ParentPath(path))

(* NodeVisitor's order of visits: a node, then its children in order *)
RECURSIVE PreOrder(_, _)
PreOrder(node, path) ==
    LET RECURSIVE kids(_)
        kids(k) == IF k > Len(Children(node)) THEN <<>>
                   ELSE PreOrder(Children(node)[k], Append(path, k)) \o kids(k + 1)
    IN <<path>> \o kids(1)

(* the while loop of visit_For, lines 12-17 *)
(* the loop test made on the node itself instead of on its parent *)
NestingStep_self(root, current) ==
    IF NodeAt(root, current).kind = "For" THEN 1 ELSE 0

NestingStep(root, current) ==
    IF NodeAt(root, ParentPath(current)).kind = "For" THEN 1 ELSE 0

RECURSIVE nesting_level(_, _, _)
nesting_level(root, current, level) ==
    IF current = <<>> THEN level
    ELSE nesting_level(root, ParentPath(current), level + NestingStep(root, current))

(* the while loop of visit_BinOp, lines 37-44 *)
RECURSIVE inside_loop(_, _)
inside_loop(root, current) ==
    IF current = <<>> THEN FALSE
    ELSE \/ NodeAt(root, ParentPath(current)).kind = "For"
         \/ inside_loop(root, ParentPath(current))

HighIterationLimit == 1000

(* visit_For with the threshold test written >= instead of > *)
analyzer_visit_For_inclusive(root, path, a) ==
    LET node == NodeAt(root, path)
        level == nesting_level(root, path, 0)
        a1 == IF level > 0
              THEN [a EXCEPT !.nested_loops =
                        Append(@, [line |-> node.lineno, level |-> level])]
              ELSE a
        isRange == /\ node.iter.kind = "Call"
                   /\ node.iter.func.kind = "Name"
                   /\ node.iter.func.id = "range"
        arg == node.iter.args[1]
    IN IF isRange /\ node.iter.args # <<>>
       THEN IF arg.kind = "Str"
            THEN [a1 EXCEPT !.raised = TRUE, !.error = TypeError(node.lineno)]
            ELSE IF arg.kind = "Constant" /\ arg.value >= HighIterationLimit
                 THEN [a1 EXCEPT !.high_iterations =
                           Append(@, [line |-> node.lineno, value |-> arg.value])]
                 ELSE a1
       ELSE a1

analyzer_visit_For(root, path, a) ==
    LET node == NodeAt(root, path)
        level == nesting_level(root, path, 0)
        a1 == IF level > 0
              THEN [a EXCEPT !.nested_loops =
                        Append(@, [line |-> node.lineno, level |-> level])]
              ELSE a
        isRange == /\ node.iter.kind = "Call"
                   /\ node.iter.func.kind = "Name"
                   /\ node.iter.func.id = "range"
        arg == node.iter.args[1]
    IN IF isRange /\ node.iter.args # <<>>
       THEN IF arg.kind = "Str"
            THEN [a1 EXCEPT !.raised = TRUE,      \* str > int raises TypeError
                            !.error = TypeError(node.lineno)]
            ELSE IF arg.kind = "Constant" /\ arg.value > HighIterationLimit
                 THEN [a1 EXCEPT !.high_iterations =
                           Append(@, [line |-> node.lineno, value |-> arg.value])]
                 ELSE a1
       ELSE a1

(* visit_BinOp without the break: one finding for every enclosing loop *)
analyzer_visit_BinOp_every_loop(root, path, a) ==
    LET node == NodeAt(root, path)
        RECURSIVE times(_, _)
        times(k, list) ==
            IF k = 0 THEN list
            ELSE times(k - 1, Append(list, [line |-> LineAt(root, path), dump |-> node]))
    IN IF node.op \in {"Add", "Mult"}
       THEN [a EXCEPT !.repeated_computations = times(nesting_level(root, path, 0), @)]
       ELSE a

analyzer_visit_BinOp(root, path, a) ==
    LET node == NodeAt(root, path)
    IN IF node.op \in {"Add", "Mult"} /\ inside_loop(root, path)
       THEN [a EXCEPT !.repeated_computations =
                 Append(@, [line |-> LineAt(root, path), dump |-> node])]
       ELSE a

(* self.visit(tree): the visits in order; an exception ends the walk *)
RECURSIVE analyzer_visit(_, _, _)
analyzer_visit(root, paths, a) ==
    IF paths = <<>> \/ a.raised THEN a
    ELSE LET kind == NodeAt(root, Head(paths)).kind
             a1 == IF kind = "For" THEN analyzer_visit_For(root, Head(paths), a)
                   ELSE IF kind = "BinOp"
                        THEN analyzer_visit_BinOp(root, Head(paths), a)
                        ELSE a
         IN analyzer_visit(root, Tail(paths), a1)

(* StaticAnalyzer.__init__.  raised and error are not attributes of the  *)
(* instance: they record that a call on it ended in an exception, and    *)
(* which.                                                                *)
NewAnalyzer ==
    [nested_loops |-> <<>>, high_iterations |-> <<>>,
     repeated_computations |-> <<>>, vectorization_candidates |-> <<>>,
     raised |-> FALSE, error |-> NoError]

(* analyze answering a text that does not parse with no findings instead *)
(* of letting the parser's exception through                             *)
analyze_swallowing(a, source_code) ==
    LET tree == Parse(source_code)
    IN IF ~Valid(source_code) THEN a
       ELSE analyzer_visit(tree, PreOrder(tree, <<>>), a)

analyze(a, source_code) ==
    LET tree == Parse(source_code)
    IN IF ~Valid(source_code)
       THEN [a EXCEPT !.raised = TRUE, !.error = parse_error(source_code)]
       ELSE analyzer_visit(tree, PreOrder(tree, <<>>), a)

(* the dict analyze returns *)
Result(a) ==
    [nested_loops |-> a.nested_loops, high_iterations |-> a.high_iterations,
     repeated_computations |-> a.repeated_computations,
     vectorization_candidates |-> a.vectorization_candidates]

---------------------------------------------------------------------------
(* Parent links.  StaticAnalyzer.analyze and RefactoringEngine.visit_Module *)
(* begin by setting .parent on the nodes of the tree.  A node is named by   *)
(* an id: its path from the root, or, for a context or operator node       *)
(* (ast.Load, ast.Store, ast.Add, ...), the name of its class, because     *)
(* ast.parse puts one and the same object of such a class in every node    *)
(* that needs it.  A linking step is kept as the assignments               *)
(* "child.parent = node" it makes, in the order it makes them; an object's *)
(* .parent is what the last assignment to it stored.  Nothing but these    *)
(* steps writes .parent, so the links the nodes carry are a function of    *)
(* the tree that was linked: link_parents(Parse(source)) once analyze has  *)
(* parsed the text, set_parents(Root(trees[p])) from the start of pass p.  *)

NodeId(path) == [path |-> path, marker |-> ""]
MarkerId(class) == [path |-> <<>>, marker |-> class]

(* a node on its way through a linking step: the node, its path and the *)
(* ctx the parser gave it ("Load" where it has none)                    *)
Root(tree) == [node |-> tree, path |-> <<>>, ctx |-> "Load"]

(* the ctx of the idx-th child of a node *)
ChildContext(holder, idx, ctx) ==
    CASE holder.kind = "For" /\ idx = 1 -> "Store"
      [] holder.kind = "Assign" /\ idx <= Len(holder.targets) -> "Store"
      [] holder.kind = "AugAssign" /\ idx = 1 -> "Store"
      [] holder.kind = "Tuple" -> ctx
      [] OTHER -> "Load"

(* ast.iter_child_nodes with the context and operator nodes: the ids of  *)
(* the children of a node, in field order                                *)
ChildIds(e) ==
    LET n == e.node
        kid(k) == NodeId(Append(e.path, k))
    IN CASE n.kind = "Name" -> <<MarkerId(e.ctx)>>
         [] n.kind = "Attribute" -> <<kid(1), MarkerId(e.ctx)>>
         [] n.kind = "Subscript" -> <<kid(1), kid(2), MarkerId(e.ctx)>>
         [] n.kind = "Tuple" -> [k \in 1..Len(n.elts) |-> kid(k)] \o <<MarkerId(e.ctx)>>
         [] n.kind = "BinOp" \/ n.kind = "AugAssign" ->
               <<kid(1), MarkerId(n.op), kid(2)>>
         [] OTHER -> [k \in 1..Len(Children(n)) |-> kid(k)]

(* the children that have children of their own to link *)
Kids(e) ==
    [k \in 1..Len(Children(e.node)) |->
        [node |-> Children(e.node)[k], path |-> Append(e.path, k),
         ctx |-> ChildContext(e.node, k, e.ctx)]]

(* the assignments `child.parent = node` for the children of one node *)
LinkChildren(e) ==
    [k \in 1..Len(ChildIds(e)) |-> [child |-> ChildIds(e)[k], parent |-> e.path]]

(* the sequences of a sequence joined end to end *)
RECURSIVE Concat(_)
Concat(seqs) ==
    IF seqs = <<>> THEN <<>>
    ELSE IF Len(seqs) = 1 THEN seqs[1]
    ELSE Concat(SubSeq(seqs, 1, Len(seqs) \div 2))
         \o Concat(SubSeq(seqs, Len(seqs) \div 2 + 1, Len(seqs)))

(* analyze, lines 49-51: ast.walk takes the nodes from the front of a    *)
(* queue and puts their children at its end, so it goes through the tree *)
(* level by level; todo is the part of the queue that holds one level    *)
RECURSIVE walk_and_link(_)
walk_and_link(todo) ==
    IF todo = <<>> THEN <<>>
    ELSE Concat([k \in 1..Len(todo) |-> LinkChildren(todo[k])])
         \o walk_and_link(Concat([k \in 1..Len(todo) |-> Kids(todo[k])]))

link_parents(tree) == walk_and_link(<<Root(tree)>>)

(* _set_parents without the call on the child: only the children of the *)
(* node it is called on are linked                                      *)
set_parents_no_descent(parent_node) == LinkChildren(parent_node)

(* RefactoringEngine._set_parents, and the same loop in visit_Module *)
RECURSIVE set_parents(_)
set_parents(parent_node) ==
    LET kids == ChildIds(parent_node)
        RECURSIVE each(_)
        each(k) ==
            IF k > Len(kids) THEN <<>>
            ELSE <<[child |-> kids[k], parent |-> parent_node.path]>>
                 \o (IF kids[k].marker = ""
                     THEN set_parents(Kids(parent_node)[kids[k].path[Len(kids[k].path)]])
                     ELSE <<>>)
                 \o each(k + 1)
    IN each(1)

(* the .parent attributes after the assignments links: a function from  *)
(* the ids that have the attribute to the path of the node it refers to  *)
Parents(links) ==
    LET ids == {links[k].child : k \in 1..Len(links)}
        last(id) == LET at == {k \in 1..Len(links) : links[k].child = id}
                    IN CHOOSE k \in at : \A m \in at : m <= k
    IN [id \in ids |-> NodeId(links[last(id)].parent)]

(* `while hasattr(current, "parent"): current = current.parent`: where  *)
(* the walk ends and the steps it takes                                  *)
RECURSIVE climb(_, _, _)
climb(parent, current, steps) ==
    IF current \notin DOMAIN parent THEN [top |-> current, steps |-> steps]
    ELSE climb(parent, parent[current], steps + 1)

(* the loop of find_module_node, lines 253-255: None when the chain ends *)
(* before a module is met                                                *)
None == [path |-> <<>>, marker |-> "None"]
RECURSIVE climb_to_module(_, _, _)
climb_to_module(root, parent, current) ==
    IF current.marker = "" /\ NodeAt(root, current.path).kind = "Module" THEN current
    ELSE IF current \in DOMAIN parent
    THEN climb_to_module(root, parent, parent[current])
    ELSE None

---------------------------------------------------------------------------
(* Program texts the model is run on *)

Range(n) == Call(Name("range"), <<Constant(n)>>)
RangeLen(a) == Call(Name("range"), <<Call(Name("len"), <<Name(a)>>)>>)
Elem(a, i) == Subscript(Name(a), Name(i))

\* total += matrix[i][j]
SumStmt ==
    AugAssign(Name("total"), "Add",
              Subscript(Subscript(Name("matrix"), Name("i")), Name("j")))

\* for i in range(n): for j in range(n): total += matrix[i][j]
FlatPair(n) ==
    For(Name("i"), Range(n), <<For(Name("j"), Range(n), <<SumStmt>>, <<>>)>>, <<>>)

\* the same pair with one more statement, cnt += 1, after the inner loop
NestedExtra ==
    For(Name("i"), Range(2),
        <<For(Name("j"), Range(2), <<SumStmt>>, <<>>),
          AugAssign(Name("cnt"), "Add", Constant(1))>>,
        <<>>)

\* for i in range(len(a)): a[i] = a[i] op rhs
VecLoop(a, op, rhs) ==
    For(Name("i"), RangeLen(a),
        <<Assign(<<Elem(a, "i")>>, BinOp(Elem(a, "i"), op, rhs))>>, <<>>)

VecConst == VecLoop("arr", "Add", Constant(10))
VecOther == VecLoop("arr", "Add", Elem("other", "i"))
VecB == VecLoop("b", "Mult", Constant(2))
FuncBoth == FunctionDef("f", <<VecConst, FlatPair(2)>>)
Doc == Expr(Str("doc"))
ImportNumpy == Import(<<alias("numpy", "np")>>)
ImportItertools == Import(<<alias("itertools", "")>>)
PlainStmt == Assign(<<Name("x")>>, Constant(1))

RewritePool ==
    <<FlatPair(5), NestedExtra, VecConst, VecOther, VecB, FuncBoth, Doc,
      ImportNumpy, ImportItertools>>

LoopVar(k) == <<"i", "j", "k", "m", "n">>[k]

\* k loops, each the only statement of the one around it
RECURSIVE Chain(_)
Chain(k) ==
    For(Name(LoopVar(k)), Range(10),
        IF k = 1 THEN <<PlainStmt>> ELSE <<Chain(k - 1)>>, <<>>)

\* a loop reached from its enclosing loop through an if statement
IfNest ==
    For(Name("i"), Name("xs"),
        <<If(Name("x"), <<For(Name("j"), Name("xs"), <<PlainStmt>>, <<>>)>>, <<>>)>>,
        <<>>)

\* a loop in the else clause of a loop, and two loops side by side in a loop
ElseNest ==
    For(Name("i"), Name("xs"), <<PlainStmt>>,
        <<For(Name("j"), Name("xs"), <<PlainStmt>>, <<>>)>>)

TwoInner ==
    For(Name("i"), Range(2),
        <<For(Name("j"), Range(2), <<PlainStmt>>, <<>>),
          For(Name("k"), Range(2), <<PlainStmt>>, <<>>)>>,
        <<>>)

AnalysisPool ==
    [k \in 1..MaxNest |-> Chain(k)] \o <<IfNest, ElseNest, TwoInner, PlainStmt, VecConst>>

\* for i in <iter>: x = <value>
LoopOver(iter, value) == For(Name("i"), iter, <<Assign(<<Name("x")>>, value)>>, <<>>)

AtLimit == LoopOver(Range(HighIterationLimit), Constant(1))
OverLimit ==
    LoopOver(Range(HighIterationLimit + 1), BinOp(Name("x"), "Add", Constant(1)))
\* for i in range(n + 1): x = x - 1
VarBound ==
    LoopOver(Call(Name("range"), <<BinOp(Name("n"), "Add", Constant(1))>>),
             BinOp(Name("x"), "Sub", Constant(1)))
\* for i in range(): x = 1
NoBound == LoopOver(Call(Name("range"), <<>>), Constant(1))
\* for i in range("10"): x = 1
StrBound == LoopOver(Call(Name("range"), <<Str("10")>>), Constant(1))
\* x = x * 2
MultStmt == Assign(<<Name("x")>>, BinOp(Name("x"), "Mult", Constant(2)))
\* for i in xs: for j in range(2000): x = (x + 1) * 2
DeepBinOp ==
    For(Name("i"), Name("xs"),
        <<LoopOver(Range(2 * HighIterationLimit),
                   BinOp(BinOp(Name("x"), "Add", Constant(1)), "Mult", Constant(2)))>>,
        <<>>)

FindingsPool ==
    <<AtLimit, OverLimit, VarBound, NoBound, StrBound, MultStmt, DeepBinOp>>

\* for i in range(2000, 3000): x = 1
TwoArgHigh ==
    LoopOver(Call(Name("range"), <<Constant(2 * HighIterationLimit),
                                   Constant(3 * HighIterationLimit)>>), Constant(1))
\* for i in range(0, 5000): x = 1
TwoArgLow ==
    LoopOver(Call(Name("range"), <<Constant(0), Constant(5 * HighIterationLimit)>>),
             Constant(1))
\* for i in range(2000, 9000, 2): x = 1
ThreeArg ==
    LoopOver(Call(Name("range"), <<Constant(2 * HighIterationLimit),
                                   Constant(9 * HighIterationLimit), Constant(2)>>),
             Constant(1))

RangesPool == <<AtLimit, OverLimit, TwoArgHigh, TwoArgLow, ThreeArg, PlainStmt>>

\* for i in range(len(other)): arr[i] = arr[i] + 1
ArrMismatch ==
    For(Name("i"), RangeLen("other"),
        <<Assign(<<Elem("arr", "i")>>, BinOp(Elem("arr", "i"), "Add", Constant(1)))>>,
        <<>>)

\* for i in range(len(arr)): arr[i] = 0
ZeroFill ==
    For(Name("i"), RangeLen("arr"), <<Assign(<<Elem("arr", "i")>>, Constant(0))>>, <<>>)

\* for i in range(len(arr)): arr[0] = arr[0] + 1
FixedIndex ==
    For(Name("i"), RangeLen("arr"),
        <<Assign(<<Subscript(Name("arr"), Constant(0))>>,
                 BinOp(Subscript(Name("arr"), Constant(0)), "Add", Constant(1)))>>,
        <<>>)

\* for i in range(2): for i in range(2): cnt += 1
SameVarPair ==
    For(Name("i"), Range(2),
        <<For(Name("i"), Range(2), <<AugAssign(Name("cnt"), "Add", Constant(1))>>,
              <<>>)>>,
        <<>>)

\* a flattenable pair whose outer loop, and one whose inner loop, has an
\* else clause
OuterElse ==
    For(Name("i"), Range(2), <<For(Name("j"), Range(2), <<SumStmt>>, <<>>)>>,
        <<AugAssign(Name("cnt"), "Add", Constant(1))>>)
InnerElse ==
    For(Name("i"), Range(2),
        <<For(Name("j"), Range(2), <<SumStmt>>,
              <<AugAssign(Name("cnt"), "Add", Constant(1))>>)>>,
        <<>>)

\* def g(): with the pair, an else clause on both loops, in its body
ElseInFunc ==
    FunctionDef("g",
        <<For(Name("i"), Range(2),
              <<For(Name("j"), Range(2), <<SumStmt>>, <<PlainStmt>>)>>,
              <<PlainStmt>>)>>)

ShapesPool ==
    <<ArrMismatch, ZeroFill, FixedIndex, SameVarPair, OuterElse, InnerElse,
      ElseInFunc>>

\* for i in range(len(arr)): arr[i] += 10
AugConst ==
    For(Name("i"), RangeLen("arr"),
        <<AugAssign(Elem("arr", "i"), "Add", Constant(10))>>, <<>>)

\* for i in range(len(arr)): arr[i] += arr[i] - 3
AugBinOp ==
    For(Name("i"), RangeLen("arr"),
        <<AugAssign(Elem("arr", "i"), "Add",
                    BinOp(Elem("arr", "i"), "Sub", Constant(3)))>>, <<>>)

\* for i in range(len(arr)): arr[i] = arr[i] / 2
VecDiv == VecLoop("arr", "Div", Constant(2))

\* for i in range(len(arr)): arr[i] = x = arr[i] + 1
Chained ==
    For(Name("i"), RangeLen("arr"),
        <<Assign(<<Elem("arr", "i"), Name("x")>>,
                 BinOp(Elem("arr", "i"), "Add", Constant(1)))>>, <<>>)

TransformerPool ==
    <<VecConst, VecB, AugBinOp, AugConst, VecOther, VecDiv, Chained, ArrMismatch,
      FuncBoth, ImportNumpy>>

Texts(pool) ==
    UNION {{[k \in 1..len |-> pool[f[k]]] : f \in [1..len -> 1..Len(pool)]} :
           len \in 1..MaxStmts}

---------------------------------------------------------------------------
(* Variable values a program text is run from *)

IntV(n) == [t |-> "int", v |-> n]
ListV(s) == [t |-> "list", v |-> s]
NdV(s) == [t |-> "nd", v |-> s]
TupV(s) == [t |-> "tuple", v |-> s]
Undef == [t |-> "undef", v |-> 0]
ErrV == [t |-> "error", v |-> 0]

VarNames ==
    {"arr", "other", "b", "total", "cnt", "matrix", "xs", "x", "i", "j", "k", "m", "n"}

EnvOf(arr, other, idx) ==
    [name \in VarNames |->
        CASE name = "arr" -> ListV(arr)
          [] name = "other" -> ListV(other)
          [] name = "b" -> ListV(<<IntV(3)>>)
          [] name = "xs" -> ListV(<<IntV(1), IntV(2)>>)
          [] name = "matrix" -> ListV(<<ListV(<<IntV(1), IntV(2)>>),
                                        ListV(<<IntV(3), IntV(4)>>)>>)
          [] name \in {"total", "cnt", "x"} -> IntV(0)
          [] OTHER -> idx]

Envs ==
    {EnvOf(<<IntV(1), IntV(2)>>, <<IntV(5), IntV(6)>>, Undef),
     EnvOf(<<IntV(4)>>, <<IntV(7)>>, IntV(0))}

---------------------------------------------------------------------------
(* What running a statement list does to the variables: the Python         *)
(* semantics of the statement and expression forms above, over integers,   *)
(* lists, NumPy arrays ("nd") and tuples.  An exception (a name with no    *)
(* value, an index out of range, operands an operator does not take) ends  *)
(* the run.                                                                *)

IsSeqV(x) == x.t = "list" \/ x.t = "nd"

IntOp(op, a, b) ==
    CASE op = "Add" -> a + b
      [] op = "Sub" -> a - b
      [] op = "Mult" -> a * b

AllInt(s) == \A k \in 1..Len(s) : s[k].t = "int"

Arith(op, a, b) ==
    CASE a.t = "error" \/ b.t = "error" -> ErrV
      [] a.t = "int" /\ b.t = "int" -> IntV(IntOp(op, a.v, b.v))
      [] a.t = "nd" /\ b.t = "int" /\ AllInt(a.v) ->
            NdV([k \in 1..Len(a.v) |-> IntV(IntOp(op, a.v[k].v, b.v))])
      [] a.t = "int" /\ b.t = "nd" /\ AllInt(b.v) ->
            NdV([k \in 1..Len(b.v) |-> IntV(IntOp(op, a.v, b.v[k].v))])
      [] a.t = "nd" /\ b.t = "nd" /\ AllInt(a.v) /\ AllInt(b.v)
            /\ Len(a.v) = Len(b.v) ->
            NdV([k \in 1..Len(a.v) |-> IntV(IntOp(op, a.v[k].v, b.v[k].v))])
      [] a.t = "list" /\ b.t = "list" /\ op = "Add" -> ListV(a.v \o b.v)
      [] OTHER -> ErrV

(* the place, from 1, of index k in a sequence of length len; 0 if none *)
Place(k, len) ==
    IF 0 <= k /\ k < len THEN k + 1
    ELSE IF -len <= k /\ k < 0 THEN len + k + 1 ELSE 0

RECURSIVE Pairs(_, _)
Pairs(xs, ys) ==
    IF xs = <<>> THEN <<>>
    ELSE [k \in 1..Len(ys) |-> TupV(<<Head(xs), ys[k]>>)] \o Pairs(Tail(xs), ys)

RECURSIVE Eval(_, _)
EvalCall(e, vals) ==
    LET args == [k \in 1..Len(e.args) |-> Eval(e.args[k], vals)]
    IN CASE \E k \in 1..Len(args) : args[k].t = "error" -> ErrV
         [] e.func.kind = "Name" /\ e.func.id = "range" /\ Len(args) = 1
               /\ args[1].t = "int" ->
               ListV([k \in 1..(IF args[1].v > 0 THEN args[1].v ELSE 0) |-> IntV(k - 1)])
         [] e.func.kind = "Name" /\ e.func.id = "len" /\ Len(args) = 1
               /\ IsSeqV(args[1]) -> IntV(Len(args[1].v))
         [] e.func.kind = "Attribute" /\ e.func.value = Name("np")
               /\ e.func.attr = "array" /\ Len(args) = 1 /\ IsSeqV(args[1]) ->
               NdV(args[1].v)
         [] e.func.kind = "Attribute" /\ e.func.value = Name("itertools")
               /\ e.func.attr = "product" /\ Len(args) = 2
               /\ IsSeqV(args[1]) /\ IsSeqV(args[2]) ->
               ListV(Pairs(args[1].v, args[2].v))
         [] OTHER -> ErrV

Eval(e, vals) ==
    CASE e.kind = "Name" ->
            IF e.id \in DOMAIN vals /\ vals[e.id].t # "undef" THEN vals[e.id] ELSE ErrV
      [] e.kind = "Constant" -> IntV(e.value)
      [] e.kind = "Str" -> [t |-> "str", v |-> 0]
      [] e.kind = "BinOp" -> Arith(e.op, Eval(e.left, vals), Eval(e.right, vals))
      [] e.kind = "Subscript" ->
            LET c == Eval(e.value, vals)
                k == Eval(e.slice, vals)
            IN IF IsSeqV(c) /\ k.t = "int" /\ Place(k.v, Len(c.v)) > 0
               THEN c.v[Place(k.v, Len(c.v))] ELSE ErrV
      [] e.kind = "Tuple" ->
            LET xs == [k \in 1..Len(e.elts) |-> Eval(e.elts[k], vals)]
            IN IF \E k \in 1..Len(xs) : xs[k].t = "error" THEN ErrV ELSE TupV(xs)
      [] e.kind = "Call" -> EvalCall(e, vals)
      [] OTHER -> ErrV

Failed == [ok |-> FALSE, vals |-> <<>>]
Done(vals) == [ok |-> TRUE, vals |-> vals]

(* binding a value to an assignment or loop target *)
RECURSIVE Store(_, _, _)
Store(target, val, vals) ==
    CASE val.t = "error" -> Failed
      [] target.kind = "Name" /\ target.id \in DOMAIN vals ->
            Done([vals EXCEPT ![target.id] = val])
      [] target.kind = "Subscript" /\ target.value.kind = "Name" ->
            LET c == Eval(target.value, vals)
                k == Eval(target.slice, vals)
            IN IF IsSeqV(c) /\ k.t = "int" /\ Place(k.v, Len(c.v)) > 0
               THEN Done([vals EXCEPT ![target.value.id] =
                              [c EXCEPT !.v[Place(k.v, Len(c.v))] = val]])
               ELSE Failed
      [] target.kind = "Tuple" /\ val.t = "tuple" /\ Len(val.v) = Len(target.elts) ->
            LET RECURSIVE each(_, _)
                each(k, r) ==
                    IF k > Len(target.elts) \/ ~r.ok THEN r
                    ELSE each(k + 1, Store(target.elts[k], val.v[k], r.vals))
            IN each(1, Done(vals))
      [] OTHER -> Failed

RECURSIVE Exec(_, _)
RECURSIVE ExecFor(_, _, _)
ExecStmt(s, vals) ==
    CASE s.kind = "Assign" /\ Len(s.targets) = 1 ->
            Store(s.targets[1], Eval(s.value, vals), vals)
      [] s.kind = "AugAssign" ->
            Store(s.target, Arith(s.op, Eval(s.target, vals), Eval(s.value, vals)), vals)
      [] s.kind = "Expr" -> IF Eval(s.value, vals).t = "error" THEN Failed ELSE Done(vals)
      [] s.kind = "Import" \/ s.kind = "FunctionDef" -> Done(vals)
      [] s.kind = "If" ->
            LET c == Eval(s.test, vals)
            IN IF c.t = "error" THEN Failed
               ELSE IF c = IntV(0) \/ (IsSeqV(c) /\ c.v = <<>>)
                    THEN Exec(s.orelse, vals) ELSE Exec(s.body, vals)
      [] s.kind = "For" ->
            LET it == Eval(s.iter, vals)
            IN IF IsSeqV(it) THEN ExecFor(s, it.v, vals) ELSE Failed
      [] OTHER -> Failed

ExecFor(s, items, vals) ==
    IF items = <<>> THEN Exec(s.orelse, vals)
    ELSE LET bound == Store(s.target, Head(items), vals)
             ran == IF bound.ok THEN Exec(s.body, bound.vals) ELSE Failed
         IN IF ran.ok THEN ExecFor(s, Tail(items), ran.vals) ELSE Failed

Exec(stmts, vals) ==
    IF stmts = <<>> THEN Done(vals)
    ELSE LET r == ExecStmt(Head(stmts), vals)
         IN IF r.ok THEN Exec(Tail(stmts), r.vals) ELSE Failed

---------------------------------------------------------------------------
(* DynamicProfiler (src/utils/dynamic_profiler.py).  Both methods execute  *)
(* the target program; what that run does is an input of the model:        *)
(*   raised    : the run ended in an exception, of message `message`,      *)
(*   mem_usage : the memory samples memory_usage returned, in thousandths  *)
(*               of a MB.                                                  *)

Ran(mem_usage) == [raised |-> FALSE, message |-> "", mem_usage |-> mem_usage]
Raised(message) == [raised |-> TRUE, message |-> message, mem_usage |-> <<>>]

(* text not yet returned by a profiling call *)
NotRun == <<"not run">>
NoProfiles == [runtime |-> NotRun, memory |-> NotRun, run |-> Ran(<<>>)]

(* max(mem_usage) *)
MaxOf(list) == CHOOSE x \in {list[k] : k \in 1..Len(list)} :
                   \A k \in 1..Len(list) : list[k] <= x

(* f"{x:.2f}": x to the nearest hundredth, a tie to the even one, as the *)
(* pieces of the text: whole part, point, two digits                     *)
Format2f(x) ==
    LET low == x \div 10
        rest == x % 10
        h == IF rest > 5 \/ (rest = 5 /\ low % 2 = 1) THEN low + 1 ELSE low
    IN <<h \div 100, ".", (h % 100) \div 10, h % 10>>

(* profile_runtime: the statistics are sorted but never printed into the *)
(* stream, whose value is returned; an exception of the run gets out     *)
profile_runtime(run) == <<>>

(* profile_memory, lines 62-67 *)
profile_memory(run) ==
    IF run.raised THEN <<run.message>>
    ELSE IF run.mem_usage = <<>> THEN <<"max() arg is an empty sequence">>
         ELSE <<"Peak memory usage: ">> \o Format2f(MaxOf(run.mem_usage)) \o <<" MB">>

(* the runs of the target program the model draws from *)
Runs(text) ==
    IF ~Valid(text) THEN {Raised("invalid syntax")}
    ELSE {Ran(<<10500, 15300>>), Ran(<<15306, 10125>>), Ran(<<10125>>),
          Raised("division by zero")}

---------------------------------------------------------------------------
(* PythonOptimizer.optimize: static analysis of the text, then the        *)
(* rewrite pass over its tree.  A further pass over the tree a pass       *)
(* returned is the engine called again on its own output.                 *)

InitWith(pool) ==
    /\ source \in Texts(pool)
    /\ env \in Envs
    /\ analyzer = NewAnalyzer
    /\ analyzed = FALSE
    /\ trees = <<Parse(source)>>
    /\ logs = <<>>
    /\ returned = <<>>
    /\ pc = "idle"
    /\ trace = <<>>
    /\ error = NoError
    /\ profiles = NoProfiles
    /\ files = <<>>
    /\ transformer = NewTransformer
    /\ visits = <<>>

Init == InitWith(RewritePool)
InitAnalysis == InitWith(AnalysisPool)
InitFindings == InitWith(FindingsPool)
InitShapes == InitWith(ShapesPool)
InitRanges == InitWith(RangesPool)
InitTransformer == InitWith(TransformerPool)

(* a first call of analyze on the instance, and the calls after it.  A   *)
(* call that raises returns nothing.                                     *)
AnalyzeCall ==
    /\ analyzer' = analyze(analyzer, source)
    /\ returned' = IF analyzer'.raised THEN returned
                   ELSE Append(returned, Result(analyzer'))
    /\ UNCHANGED <<transformer, visits>>
    /\ UNCHANGED <<source, env, trees, logs, pc, trace, error, profiles, files>>

Analyze ==
    /\ ~analyzed
    /\ analyzed' = TRUE
    /\ AnalyzeCall

AnalyzeAgain ==
    /\ analyzed
    /\ ~analyzer.raised
    /\ Len(returned) < MaxCalls
    /\ analyzed' = analyzed
    /\ AnalyzeCall

Rewrite ==
    /\ analyzed
    /\ ~analyzer.raised
    /\ Len(logs) < MaxPasses
    /\ LET r == visit_Module(trees[Len(trees)])
       IN /\ trees' = Append(trees, r.tree)
          /\ logs' = Append(logs, r.log)
    /\ UNCHANGED <<transformer, visits>>
    /\ UNCHANGED <<source, env, analyzer, analyzed, returned, pc, trace, error,
                   profiles, files>>

Next == Analyze \/ Rewrite

(* PythonOptimizer.optimize, statement by statement.  The steps follow   *)
(* one another as the statements of the method do.                       *)

(* the order the specification gives: rewriting before the profiling *)
next_step_rewrite_first(step) ==
    CASE step = "analyze" -> "rewrite"
      [] step = "rewrite" -> "profile_runtime"
      [] step = "profile_runtime" -> "profile_memory"
      [] step = "profile_memory" -> "write_optimized"
      [] step = "write_optimized" -> "write_report"
      [] step = "write_report" -> "done"

next_step(step) ==
    CASE step = "analyze" -> "profile_runtime"
      [] step = "profile_runtime" -> "profile_memory"
      [] step = "profile_memory" -> "rewrite"
      [] step = "rewrite" -> "write_optimized"
      [] step = "write_optimized" -> "write_report"
      [] step = "write_report" -> "done"

OptimizePool == <<VecConst, FlatPair(2), PlainStmt, StrBound, Unparsable>>

InitOptimize ==
    /\ source \in Texts(OptimizePool)
    /\ env \in Envs
    /\ analyzer = NewAnalyzer
    /\ analyzed = FALSE
    /\ trees = <<>>
    /\ logs = <<>>
    /\ returned = <<>>
    /\ pc = "analyze"
    /\ trace = <<>>
    /\ error = NoError
    /\ profiles = NoProfiles
    /\ files = <<>>
    /\ transformer = NewTransformer
    /\ visits = <<>>

(* lines 74-75 *)
OptAnalyze ==
    /\ pc = "analyze"
    /\ analyzer' = analyze(NewAnalyzer, source)
    /\ analyzed' = TRUE
    /\ returned' = IF analyzer'.raised THEN returned
                   ELSE Append(returned, Result(analyzer'))
    /\ trace' = Append(trace, "analyze")
    /\ pc' = IF analyzer'.raised THEN "raised" ELSE next_step(pc)
    /\ error' = analyzer'.error
    /\ UNCHANGED <<transformer, visits>>
    /\ UNCHANGED <<source, env, trees, logs, profiles, files>>

(* lines 78-79 *)
OptProfileRuntime ==
    /\ pc = "profile_runtime"
    /\ trace' = Append(trace, "profile_runtime")
    /\ \E run \in Runs(source) :
          IF run.raised
          THEN /\ pc' = "raised"
               /\ error' = [type |-> run.message, lineno |-> 0]
               /\ profiles' = profiles
          ELSE /\ pc' = next_step(pc)
               /\ error' = error
               /\ profiles' = [profiles EXCEPT !.runtime = profile_runtime(run)]
    /\ UNCHANGED <<transformer, visits>>
    /\ UNCHANGED <<source, env, analyzer, analyzed, trees, logs, returned, files>>

(* line 80 *)
OptProfileMemory ==
    /\ pc = "profile_memory"
    /\ trace' = Append(trace, "profile_memory")
    /\ \E run \in Runs(source) :
          profiles' = [profiles EXCEPT !.memory = profile_memory(run), !.run = run]
    /\ pc' = next_step(pc)
    /\ UNCHANGED <<transformer, visits>>
    /\ UNCHANGED <<source, env, analyzer, analyzed, trees, logs, returned, error,
                   files>>

(* lines 83-87 *)
OptRewrite ==
    /\ pc = "rewrite"
    /\ trace' = Append(trace, "rewrite")
    /\ LET r == visit_Module(Parse(source))
       IN /\ trees' = <<Parse(source), r.tree>>
          /\ logs' = <<r.log>>
    /\ pc' = next_step(pc)
    /\ UNCHANGED <<transformer, visits>>
    /\ UNCHANGED <<source, env, analyzer, analyzed, returned, error, profiles,
                   files>>

(* lines 90-102: the file holds the text astor renders of the tree, kept *)
(* here as the tree                                                      *)
OptWriteOptimized ==
    /\ pc = "write_optimized"
    /\ files' = Append(files, [path |-> "optimized_code/_optimized.py",
                               content |-> trees[Len(trees)]])
    /\ trace' = trace \o <<"write_optimized", "print_saved">>
    /\ pc' = next_step(pc)
    /\ UNCHANGED <<transformer, visits>>
    /\ UNCHANGED <<source, env, analyzer, analyzed, trees, logs, returned, error,
                   profiles>>

(* lines 104-129: the report is made of the findings and the two profiles *)
OptWriteReport ==
    /\ pc = "write_report"
    /\ files' = Append(files,
                       [path |-> "report.html",
                        content |->
                           [static_suggestions |->
                                returned[1].high_iterations
                                \o returned[1].repeated_computations
                                \o returned[1].vectorization_candidates,
                            nested_loop_suggestions |-> returned[1].nested_loops,
                            profile |-> <<profiles.runtime, profiles.memory>>]])
    /\ trace' = trace \o <<"write_report", "print_complete">>
    /\ pc' = next_step(pc)
    /\ UNCHANGED <<transformer, visits>>
    /\ UNCHANGED <<source, env, analyzer, analyzed, trees, logs, returned, error,
                   profiles>>

NextOptimize ==
    \/ OptAnalyze
    \/ OptProfileRuntime
    \/ OptProfileMemory
    \/ OptRewrite
    \/ OptWriteOptimized
    \/ OptWriteReport

(* a client of VectorizationTransformer: visit on the parsed text, and  *)
(* visit again, on the same instance, on another module                 *)
VisitCall(module) ==
    LET r == transformer_visit_Module(transformer, module)
    IN /\ transformer' = r.self
       /\ visits' = Append(visits, [module |-> module, tree |-> r.tree,
                                    log |-> r.log])
       /\ UNCHANGED <<source, env, analyzer, analyzed, trees, logs, returned, pc,
                      trace, error, profiles, files>>

Vectorize ==
    /\ visits = <<>>
    /\ VisitCall(trees[1])

VectorizeAnother ==
    /\ visits # <<>>
    /\ Len(visits) < MaxCalls
    /\ \E k \in 1..Len(TransformerPool) : VisitCall(Parse(<<TransformerPool[k]>>))

NextTransformer == Vectorize \/ VectorizeAnother

(* a client that keeps its StaticAnalyzer and calls analyze on it again *)
NextReuse == Analyze \/ AnalyzeAgain \/ Rewrite

Spec == Init /\ [][Next]_vars
SpecAnalysis == InitAnalysis /\ [][Next]_vars
SpecFindings == InitFindings /\ [][Next]_vars
SpecReuse == InitFindings /\ [][NextReuse]_vars
SpecShapes == InitShapes /\ [][Next]_vars
SpecRanges == InitRanges /\ [][Next]_vars
SpecTransformer == InitTransformer /\ [][NextTransformer]_vars
SpecOptimize == InitOptimize /\ [][NextOptimize]_vars

passes == Len(logs)
tree == trees[Len(trees)]

---------------------------------------------------------------------------
(* Vocabulary of the claims *)

(* every visit_For call of every pass so far *)
Calls == UNION {{<<p, k>> : k \in 1..Len(logs[p])} : p \in 1..Len(logs)}
CallAt(c) == logs[c[1]][c[2]]
Fired(p, rule) == \E k \in 1..Len(logs[p]) : logs[p][k].rule = rule

IsNumpyImport(stmt) == IsImportOf(stmt, "numpy")
IsItertoolsImport(stmt) == IsImportOf(stmt, "itertools")

RECURSIVE CountNodes(_, _)
CountNodes(node, name) ==
    LET RECURSIVE below(_)
        below(k) == IF k > Len(Children(node)) THEN 0
                    ELSE CountNodes(Children(node)[k], name) + below(k + 1)
    IN (IF node.kind = "Import" /\ IsImportOf(node, name) THEN 1 ELSE 0) + below(1)

(* the program variables a loop works on: arrays and accumulators, not  *)
(* the loop indices                                                     *)
Observed == {"arr", "other", "b", "total", "cnt", "matrix", "xs", "x"}

SameValue(a, b) == IF IsSeqV(a) /\ IsSeqV(b) THEN a.v = b.v ELSE a = b

SameFinal(r1, r2) ==
    /\ r1.ok = r2.ok
    /\ r1.ok => \A name \in Observed : SameValue(r1.vals[name], r2.vals[name])

(* the preconditions of the two rewrite rules as the specification states *)
(* them (spec.md, 4.2)                                                    *)
FlattenPrecondition(n) ==
    /\ Len(n.body) = 1
    /\ n.body[1].kind = "For"
    /\ n.target.kind = "Name"
    /\ n.body[1].target.kind = "Name"
    /\ n.iter.kind = "Call"
    /\ n.body[1].iter.kind = "Call"

VectorizePrecondition(n) ==
    /\ Len(n.body) = 1
    /\ n.body[1].kind \in {"Assign", "AugAssign"}
    /\ n.target.kind = "Name"
    /\ LET stmt == n.body[1]
           target == IF stmt.kind = "Assign" THEN stmt.targets[1] ELSE stmt.target
       IN /\ stmt.kind = "Assign" => Len(stmt.targets) = 1
          /\ target.kind = "Subscript"
          /\ target.value.kind = "Name"
          /\ n.iter = RangeLen(target.value.id)
          /\ target.slice = n.target
          /\ stmt.value.kind = "BinOp"
          /\ stmt.value.left = target
          /\ stmt.value.right.kind = "Constant"
          /\ stmt.value.op \in {"Add", "Sub", "Mult"}

(* the statement an assignment makes, apart from its line and marker *)
Core(stmt) == [targets |-> stmt.targets, value |-> stmt.value]

(* every loop of a statement list with the number of loops around it, as *)
(* the text nests them                                                   *)
RECURSIVE LoopsUnder(_, _)
LoopsUnder(stmts, k) ==
    IF stmts = <<>> THEN <<>>
    ELSE LET s == Head(stmts)
             here == CASE s.kind = "For" ->
                            <<[line |-> s.lineno, level |-> k]>>
                            \o LoopsUnder(s.body, k + 1) \o LoopsUnder(s.orelse, k + 1)
                       [] s.kind = "If" ->
                            LoopsUnder(s.body, k) \o LoopsUnder(s.orelse, k)
                       [] s.kind = "FunctionDef" -> LoopsUnder(s.body, k)
                       [] OTHER -> <<>>
         IN here \o LoopsUnder(Tail(stmts), k)

FindingsAt(line) ==
    SelectSeq(analyzer.nested_loops, LAMBDA f : f.line = line)

(* the places of an event in the trace of optimize *)
Places(event) == {k \in 1..Len(trace) : trace[k] = event}
Before(e1, e2) == \A k1 \in Places(e1) : \A k2 \in Places(e2) : k1 < k2
Once(event) == Cardinality(Places(event)) = 1

IsPrefix(s, t) == Len(s) <= Len(t) /\ s = SubSeq(t, 1, Len(s))

ProfilingEvents == {"profile_runtime", "profile_memory"}
OutputEvents == {"write_optimized", "print_saved", "write_report", "print_complete"}

(* every node of a tree in document order, each with the line it lies on  *)
(* and the number of for loops it lies in, counted from the root down     *)
RECURSIVE Walk(_, _, _)
Walk(node, line, loops) ==
    LET here == IF "lineno" \in DOMAIN node THEN node.lineno ELSE line
        below == IF node.kind = "For" THEN loops + 1 ELSE loops
        RECURSIVE kids(_)
        kids(k) == IF k > Len(Children(node)) THEN <<>>
                   ELSE Walk(Children(node)[k], here, below) \o kids(k + 1)
    IN <<[node |-> node, line |-> here, loops |-> loops]>> \o kids(1)

Nodes == Walk(trees[1], 0, 0)

IsRangeLoop(n) ==
    n.kind = "For" /\ n.iter.kind = "Call" /\ n.iter.func = Name("range")

HasIntBound(n) ==
    IsRangeLoop(n) /\ Len(n.iter.args) = 1 /\ n.iter.args[1].kind = "Constant"

HighAt(line) == SelectSeq(analyzer.high_iterations, LAMBDA f : f.line = line)

(* the loops of the input, by the line of their header: the lines of the *)
(* loops nested in the loop of line `line`, at any depth                 *)
ForAt(line) ==
    LET at == SelectSeq(Nodes, LAMBDA w : w.node.kind = "For" /\ w.line = line)
    IN at[1].node

InnerLoopLines(line) ==
    LET below == Walk(ForAt(line), 0, 0)
    IN {below[k].line : k \in {m \in 1..Len(below) : below[m].node.kind = "For"}}
       \ {line}

(* the visit_For calls of the first pass on the loop of a line *)
CallsOn(line) == {k \in 1..Len(logs[1]) : logs[1][k].node.lineno = line}
RewritesOn(line) == {k \in CallsOn(line) : logs[1][k].rule # "none"}

LoopLines == {Nodes[k].line : k \in {m \in 1..Len(Nodes) : Nodes[m].node.kind = "For"}}

(* the top-level statements of the input that are three loops one in the *)
(* other, as lines of the outermost loop                                 *)
ChainLines == {trees[1].body[j].lineno : j \in {m \in 1..Len(source) : source[m] = Chain(3)}}

UsesNumpy(stmt) == contains_numpy_usage(stmt)

---------------------------------------------------------------------------
(* The claims *)

(* C1: every loop a rewrite rule replaces and its replacement, run from  *)
(* the same variable values, leave the program variables with the same   *)
(* final values.                                                         *)
C1_ReplacementEquivalent ==
    \A c \in Calls :
        CallAt(c).rule # "none" =>
            SameFinal(Exec(<<CallAt(c).node>>, env), Exec(<<CallAt(c).res>>, env))

(* C2: a loop whose body is its inner loop plus one extra statement is   *)
(* returned unchanged by visit_For, and a module made of that loop comes *)
(* back from the pass equal to the input tree.                           *)
C2_ExtraStatementNotFlattened ==
    /\ \A c \in Calls :
          (/\ Len(CallAt(c).node.body) = 2
           /\ Len(SelectSeq(CallAt(c).node.body, IsFor)) = 1)
          => CallAt(c).res = CallAt(c).node
    /\ (passes >= 1 /\ source = <<NestedExtra>>) => trees[2] = trees[1]

(* C3: the pass over the module whose only statement is the loop pair    *)
(* over range(5) leaves exactly one loop: binding (i, j), source         *)
(* itertools.product(range(5), range(5)), body the inner loop's body.    *)
C3_FlattenedPairIsOneLoop ==
    (passes >= 1 /\ source = <<FlatPair(5)>>) =>
        LET loops == SelectSeq(trees[2].body, IsFor)
        IN /\ Len(loops) = 1
           /\ loops[1].target = TupleNode(<<Name("i"), Name("j")>>)
           /\ loops[1].iter = Call(Attribute(Name("itertools"), "product"),
                                   <<Range(5), Range(5)>>)
           /\ loops[1].body = trees[1].body[1].body[1].body

(* C4: after a pass that flattened at least one loop pair the module's   *)
(* top-level body holds `import itertools` exactly once.                 *)
C4_ItertoolsImportedOnce ==
    \A p \in 1..passes :
        Fired(p, "flatten") =>
            Len(SelectSeq(trees[p + 1].body, IsItertoolsImport)) = 1

(* C5: the pass turns `for i in range(len(arr)): arr[i] = arr[i] + 10`   *)
(* into arr = np.array(arr) followed by arr = arr + 10.                  *)
C5_VectorizedIsTwoStatements ==
    (passes >= 1 /\ source = <<VecConst>>) =>
        LET stmts == SelectSeq(trees[2].body, LAMBDA x : x.kind # "Import")
        IN /\ Len(stmts) = 2
           /\ stmts[1].kind = "Assign" /\ stmts[2].kind = "Assign"
           /\ Core(stmts[1]) =
                 Core(Assign(<<Name("arr")>>,
                             Call(Attribute(Name("np"), "array"), <<Name("arr")>>)))
           /\ Core(stmts[2]) =
                 Core(Assign(<<Name("arr")>>,
                             BinOp(Name("arr"), "Add", Constant(10))))

(* C6: a loop whose single assignment adds a right operand that is not a *)
(* literal constant is returned unchanged by visit_For.                  *)
C6_NonConstantNotVectorized ==
    \A c \in Calls :
        LET n == CallAt(c).node
        IN (/\ Len(n.body) = 1
            /\ n.body[1].kind = "Assign"
            /\ n.body[1].value.kind = "BinOp"
            /\ n.body[1].value.right.kind # "Constant")
           => CallAt(c).res = n

(* C7: a pass that vectorized a loop leaves exactly one numpy import in  *)
(* the module, at top level, however many loops were vectorized; a       *)
(* module that already imported numpy gets no further import.            *)
C7_NumpyImportedOnce ==
    \A p \in 1..passes :
        Fired(p, "vectorize") =>
            LET before == Len(SelectSeq(trees[p].body, IsNumpyImport))
                after == Len(SelectSeq(trees[p + 1].body, IsNumpyImport))
            IN /\ after = (IF before > 0 THEN before ELSE 1)
               /\ CountNodes(trees[p + 1], "numpy") = after

C7_Witness ==
    /\ passes >= 1
    /\ source = <<VecConst, VecB, VecConst>>
    /\ Len(SelectSeq(logs[1], LAMBDA e : e.rule = "vectorize")) >= 3
    /\ Len(SelectSeq(trees[2].body, IsNumpyImport)) = 1

(* C8: a loop that meets neither the flattening nor the vectorization    *)
(* precondition is returned by visit_For as it is.                       *)
C8_NoMatchUnchanged ==
    \A c \in Calls :
        (~FlattenPrecondition(CallAt(c).node) /\ ~VectorizePrecondition(CallAt(c).node))
        => (CallAt(c).rule = "none" /\ CallAt(c).res = CallAt(c).node)

(* C9: a second pass over the output of a pass that vectorized a loop    *)
(* changes nothing: no statement, no import.                             *)
C9_SecondPassNoOp ==
    (passes >= 2 /\ Fired(1, "vectorize")) => trees[3] = trees[2]

C9_Witness ==
    /\ passes = 2
    /\ source = <<VecConst>>
    /\ Fired(1, "vectorize")
    /\ trees[3] = trees[2]

(* C10: analyze reports, for every for loop with k > 0 for loops around  *)
(* it, exactly one nested-loop finding, of level k, and none for a loop  *)
(* with no loop around it.                                               *)
C10_NestingLevelIsDepth ==
    analyzed =>
        LET loops == LoopsUnder(trees[1].body, 0)
        IN /\ \A j \in 1..Len(loops) :
                 IF loops[j].level > 0
                 THEN FindingsAt(loops[j].line) = <<loops[j]>>
                 ELSE FindingsAt(loops[j].line) = <<>>
           /\ Len(analyzer.nested_loops) =
                 Len(SelectSeq(loops, LAMBDA l : l.level > 0))

C10_Witness ==
    /\ analyzed
    /\ \E j \in 1..Len(analyzer.nested_loops) : analyzer.nested_loops[j].level >= 2
    /\ \E j \in 1..Len(source) : source[j] = IfNest

(* C11: in an analysis that returns, a loop over range(v), v an integer  *)
(* literal, gets exactly one high-iteration finding if v > 1000 and none *)
(* otherwise: none for 1000, one for 1001.                               *)
C11_ThresholdIsStrict ==
    (analyzed /\ ~analyzer.raised) =>
        \A j \in 1..Len(Nodes) :
            HasIntBound(Nodes[j].node) =>
                LET v == Nodes[j].node.iter.args[1].value
                IN HighAt(Nodes[j].line) =
                      (IF v > 1000 THEN <<[line |-> Nodes[j].line, value |-> v]>>
                       ELSE <<>>)

C11_Witness ==
    /\ analyzed /\ ~analyzer.raised
    /\ source = <<AtLimit, OverLimit>>
    /\ analyzer.high_iterations = <<[line |-> 3, value |-> 1001]>>

(* C12: analyze never raises because of a loop's bound: it returns, and  *)
(* a range loop whose bound is missing or is not an integer literal gets *)
(* no high-iteration finding.                                            *)
C12_UnknownBoundNeverRaises ==
    analyzed =>
        /\ ~analyzer.raised
        /\ \A j \in 1..Len(Nodes) :
              (IsRangeLoop(Nodes[j].node) /\ ~HasIntBound(Nodes[j].node))
              => HighAt(Nodes[j].line) = <<>>

(* C13: in an analysis that returns, the repeated-computation findings   *)
(* are, in document order, one for every + or * operation that lies in   *)
(* at least one loop, whatever the number of loops around it, and none   *)
(* for an operation outside every loop or with another operator.         *)
C13_OneFindingPerLoopBinOp ==
    (analyzed /\ ~analyzer.raised) =>
        LET hits == SelectSeq(Nodes, LAMBDA w : /\ w.node.kind = "BinOp"
                                                /\ w.node.op \in {"Add", "Mult"}
                                                /\ w.loops >= 1)
        IN analyzer.repeated_computations =
              [j \in 1..Len(hits) |-> [line |-> hits[j].line, dump |-> hits[j].node]]

C13_Witness ==
    /\ analyzed /\ ~analyzer.raised
    /\ source = <<MultStmt, DeepBinOp, VarBound>>
    /\ Len(analyzer.repeated_computations) = 3
    /\ analyzer.repeated_computations[1].line = 4
    /\ analyzer.repeated_computations[2].line = 4

(* C14: every analyze call on the same text returns the same findings   *)
(* in the same order, also on one and the same StaticAnalyzer, and what  *)
(* an earlier call returned is not altered by a later call.  (The dict   *)
(* a call returns holds the instance's own lists, so what an earlier     *)
(* call returned reads, now, as Result(analyzer).)                       *)
C14_AnalysisCarriesNoState ==
    \A k \in 1..Len(returned) :
        /\ returned[k] = Result(analyze(NewAnalyzer, source))
        /\ returned[k] = returned[1]
        /\ Result(analyzer) = returned[k]

(* C15: on a text that is not valid, analysis fails with the parser's   *)
(* own syntax error and optimize ends with that error before any        *)
(* rewriting, before the program is run for profiling and before any    *)
(* file is written.                                                      *)
C15_ParseErrorBeforeAnythingElse ==
    (~Valid(source) /\ pc # "analyze") =>
        /\ analyzer.raised
        /\ analyzer.error = parse_error(source)
        /\ analyzer.error.type = "SyntaxError"
        /\ pc = "raised"
        /\ error = analyzer.error
        /\ trace = <<"analyze">>
        /\ trees = <<>> /\ logs = <<>>
        /\ profiles = NoProfiles
        /\ files = <<>>

C15_Witness ==
    /\ pc = "raised"
    /\ source = <<VecConst, Unparsable>>
    /\ error = SyntaxError(3)

(* C16 as stated: optimize calls static analysis, then the rewrite       *)
(* engine, then the runtime and the memory profiler, and after them      *)
(* writes the two files and prints the two status lines.                 *)
C16_RewriteBeforeProfiling ==
    pc = "done" =>
        /\ Before("analyze", "rewrite")
        /\ Before("rewrite", "profile_runtime")
        /\ Before("profile_runtime", "profile_memory")
        /\ \A e \in OutputEvents : Before("profile_memory", e)

(* C16 amended: optimize calls static analysis, then the runtime and the *)
(* memory profiler, then the rewrite engine, then writes the rewritten   *)
(* source and prints the first status line, then writes the report and   *)
(* prints the second; a run that an exception ends has made a prefix of  *)
(* these.                                                                *)
C16_ProfilingBeforeRewrite ==
    LET order == <<"analyze", "profile_runtime", "profile_memory", "rewrite",
                   "write_optimized", "print_saved", "write_report",
                   "print_complete">>
    IN /\ IsPrefix(trace, order)
       /\ pc = "done" => trace = order

C16_Witness ==
    /\ pc = "done"
    /\ Len(files) = 2
    /\ Once("rewrite") /\ Once("profile_runtime") /\ Once("profile_memory")

(* C17: whatever the run of the target program does, profile_memory      *)
(* returns the line `Peak memory usage: X.XX MB`, X.XX the largest of    *)
(* the memory samples to two decimals.                                   *)
C17_AlwaysPeakLine ==
    profiles.memory # NotRun =>
        LET line == profiles.memory
        IN /\ Len(line) = 6
           /\ line[1] = "Peak memory usage: "
           /\ line[3] = "."
           /\ line[6] = " MB"
           /\ profiles.run.mem_usage # <<>>
           /\ LET shown == 1000 * line[2] + 100 * line[4] + 10 * line[5]
                  peak == MaxOf(profiles.run.mem_usage)
              IN shown - 5 <= peak /\ peak <= shown + 5

(* C18: in one pass a loop of the input is rewritten at most once, a    *)
(* replacement is never visited by the pass that made it, and a module   *)
(* that is one top-level loop on which a rule fires comes out with       *)
(* exactly one statement in the loop's place.                            *)
C18_RewrittenAtMostOnce ==
    passes >= 1 =>
        /\ \A line \in LoopLines : Cardinality(RewritesOn(line)) <= 1
        /\ \A k1 \in 1..Len(logs[1]) : \A k2 \in 1..Len(logs[1]) :
              (k1 < k2 /\ logs[1][k1].rule # "none")
              => logs[1][k2].node # logs[1][k1].res
        /\ (Len(source) = 1 /\ IsFor(source[1]) /\ RewritesOn(1) # {})
           => Len(SelectSeq(trees[2].body, LAMBDA x : x.kind # "Import")) = 1

(* C19 as stated: a loop is matched against the rules before any loop    *)
(* nested in it, and of three loops one in the other the pair flattened  *)
(* is the outermost one.                                                 *)
C19_TopDown ==
    passes >= 1 =>
        /\ \A line \in LoopLines : \A k \in CallsOn(line) :
              \A inner \in InnerLoopLines(line) : \A k2 \in CallsOn(inner) : k < k2
        /\ \A line \in ChainLines :
              \E k \in CallsOn(line) : logs[1][k].rule = "flatten"

(* C19 amended: the rules execute bottom-up.  A loop is matched only     *)
(* after every loop nested in it has been, and of three loops one in the *)
(* other, the innermost not itself rewritten, the pair flattened is the  *)
(* innermost one, B with C; the outermost loop is never flattened.       *)
C19_BottomUp ==
    passes >= 1 =>
        LET nodes == Nodes
            loops == {m \in 1..Len(nodes) : nodes[m].node.kind = "For"}
            inner_lines(m) ==
                LET below == Walk(nodes[m].node, 0, 0)
                IN {below[k].line : k \in {n \in 1..Len(below) : below[n].node.kind = "For"}}
                   \ {nodes[m].line}
            for_at(l) == nodes[CHOOSE m \in loops : nodes[m].line = l].node
        IN /\ \A m \in loops :
                 LET inner == inner_lines(m)
                 IN \A k \in CallsOn(nodes[m].line) : \A l \in inner :
                       \E k2 \in CallsOn(l) : k2 < k
           /\ \A line \in ChainLines :
                 /\ \A k \in CallsOn(line) : logs[1][k].rule = "none"
                 /\ \E k \in CallsOn(line + 1) :
                       /\ logs[1][k].rule = "flatten"
                       /\ logs[1][k].res.target = TupleNode(<<Name("j"), Name("i")>>)
                       /\ logs[1][k].res.body = <<for_at(line + 2).body[1]>>
                 /\ \A k \in CallsOn(line + 2) : logs[1][k].rule = "none"

C19_Witness ==
    /\ passes >= 1
    /\ source = <<Chain(3)>>
    /\ \E k \in CallsOn(2) : logs[1][k].rule = "flatten"
    /\ trees[2].body[1].kind = "For"
    /\ trees[2].body[1].target = Name("k")

(* C20: after a pass that vectorized a loop of a module with no numpy    *)
(* import, the import the pass put in comes, in the module's top-level   *)
(* statements, before every statement that refers to np.                 *)
C20_NumpyImportBeforeUse ==
    \A p \in 1..passes :
        (Fired(p, "vectorize") /\ ~HasImport(trees[p].body, "numpy")) =>
            LET body == trees[p + 1].body
            IN \E k \in 1..Len(body) :
                  /\ IsNumpyImport(body[k])
                  /\ \A m \in 1..Len(body) : UsesNumpy(body[m]) => k < m

(* every visit_For call of every visit made on the transformer *)
VisitCalls == UNION {{<<v, k>> : k \in 1..Len(visits[v].log)} : v \in 1..Len(visits)}
VisitCallAt(c) == visits[c[1]].log[c[2]]

(* the node classes that may stand in a statement list *)
IsStatement(n) ==
    n.kind \in {"For", "If", "FunctionDef", "Assign", "AugAssign", "Import", "Expr"}

(* for i in range(len(arr)): arr[i] OP= <constant> *)
IsAugmentedConstantLoop(n) ==
    /\ n.target.kind = "Name"
    /\ Len(n.body) = 1
    /\ n.body[1].kind = "AugAssign"
    /\ IsConstant(n.body[1].value)
    /\ n.body[1].target.kind = "Subscript"
    /\ n.body[1].target.value.kind = "Name"
    /\ n.body[1].target.slice = n.target
    /\ n.iter = RangeLen(n.body[1].target.value.id)

(* the statement, expression and alias nodes of a tree, by their paths *)
Paths(root) ==
    LET order == PreOrder(root, <<>>)
    IN {order[k] : k \in 1..Len(order)}

(* the links hold what the claim says of the tree's own nodes: the root  *)
(* has no parent, every other node's parent is the node that holds it,   *)
(* the walk up from a node ends at the root after as many steps as the   *)
(* node is deep, and the walk of find_module_node ends at the module     *)
WellLinked(root, links) ==
    LET parent == Parents(links)
    IN /\ NodeId(<<>>) \notin DOMAIN parent
       /\ \A path \in Paths(root) :
             path # <<>> =>
                 /\ NodeId(path) \in DOMAIN parent
                 /\ parent[NodeId(path)] = NodeId(ParentPath(path))
                 /\ climb(parent, NodeId(path), 0)
                       = [top |-> NodeId(<<>>), steps |-> Len(path)]
                 /\ climb_to_module(root, parent, NodeId(path)) = NodeId(<<>>)

(* every object a linking step touched, context and operator objects    *)
(* too, has for parent each node the step found it in                    *)
EveryHolderIsParent(links) ==
    LET parent == Parents(links)
    IN \A k \in 1..Len(links) : parent[links[k].child] = NodeId(links[k].parent)

(* C21: the vectorization rule fires on a loop only when the loop        *)
(* iterates over range(len(array)) of the array it assigns to, the       *)
(* subscript's index is the loop variable and the right-hand side is a   *)
(* binary operation whose left operand is that same subscript; on any    *)
(* other loop it declines.                                               *)
C21_DeclinesUnlessConfirmed ==
    \A c \in Calls :
        CallAt(c).rule = "vectorize" =>
            LET n == CallAt(c).node
                stmt == n.body[1]
                target == stmt.targets[1]
            IN /\ n.iter = RangeLen(target.value.id)
               /\ target.slice = n.target
               /\ stmt.value.kind = "BinOp"
               /\ stmt.value.left = target

(* C22: VectorizationTransformer.visit_For replaces a loop exactly when  *)
(* the loop is `for i in range(len(arr))`, its body is one assignment or *)
(* augmented assignment to arr[i] and the right-hand side is arr[i],     *)
(* one of +, -, *, and a literal constant; the rebinding statement of    *)
(* the replacement has that operator and that constant; any other loop   *)
(* is returned as it is.                                                 *)
C22_ReplacesExactlyOnPattern ==
    \A c \in VisitCalls :
        LET call == VisitCallAt(c)
            stmt == call.node.body[1]
            arr == IF stmt.kind = "Assign" THEN stmt.targets[1].value.id
                   ELSE stmt.target.value.id
        IN /\ call.replaced <=> VectorizePrecondition(call.node)
           /\ call.replaced =>
                 call.res.body[Len(call.res.body)]
                     = Assign(<<Name(arr)>>,
                              BinOp(Name(arr), stmt.value.op, stmt.value.right))
           /\ ~call.replaced => call.res = call.node

(* C23: a loop `for i in range(len(arr)): arr[i] OP= <constant>` is      *)
(* recognised by VectorizationTransformer.visit_For and replaced by the  *)
(* NumPy statements.                                                     *)
C23_AugmentedConstantRewritten ==
    \A c \in VisitCalls :
        IsAugmentedConstantLoop(VisitCallAt(c).node) =>
            /\ VisitCallAt(c).replaced
            /\ VisitCallAt(c).res # VisitCallAt(c).node

(* C24: what a rewrite rule returns in the place of a loop, in the       *)
(* engine and in the transformer alike, is a statement, and no statement *)
(* list of a rewritten tree holds a module node.                         *)
C24_ReplacementIsStatement ==
    /\ \A c \in Calls : IsStatement(CallAt(c).res)
    /\ \A c \in VisitCalls : IsStatement(VisitCallAt(c).res)
    /\ \A v \in 1..Len(visits) :
          \A k \in 1..Len(visits[v].tree.body) : IsStatement(visits[v].tree.body[k])

(* C25: what a visit returns for a module does not depend on the modules *)
(* the instance visited before: it is what a new instance returns, and a *)
(* module without a numpy import in which a loop is replaced comes out   *)
(* with the import.                                                      *)
C25_ImportStateIsPerPass ==
    \A v \in 1..Len(visits) :
        /\ visits[v].tree = transformer_visit_Module(NewTransformer, visits[v].module).tree
        /\ ((\E k \in 1..Len(visits[v].log) : visits[v].log[k].replaced)
            /\ ~HasImport(visits[v].module.body, "numpy"))
           => CountNodes(visits[v].tree, "numpy") >= 1

(* C26: in an analysis that returns, a loop gets a high-iteration        *)
(* finding if and only if it iterates over a call of range with exactly  *)
(* one argument, an integer literal above 1000; a call of range with two *)
(* or three arguments gets none.                                         *)
C26_OnlyOneArgumentRanges ==
    (analyzed /\ ~analyzer.raised) =>
        \A j \in 1..Len(Nodes) :
            Nodes[j].node.kind = "For" =>
                (HighAt(Nodes[j].line) # <<>>
                 <=> /\ HasIntBound(Nodes[j].node)
                     /\ Nodes[j].node.iter.args[1].value > 1000)

(* C27: a pair of loops that meets the flattening precondition and       *)
(* whose two loops bind the same name is flattened all the same, and the *)
(* names stay: the flattened loop binds the pair (x, x), made of the two *)
(* binding nodes, over the inner loop's body as it was.                  *)
C27_SameNameStillFlattened ==
    \A c \in Calls :
        LET n == CallAt(c).node
        IN (FlattenPrecondition(n) /\ n.body[1].target = n.target) =>
              /\ CallAt(c).rule = "flatten"
              /\ CallAt(c).res.target = TupleNode(<<n.target, n.body[1].target>>)
              /\ CallAt(c).res.body = n.body[1].body

C27_Witness ==
    /\ passes >= 1
    /\ source = <<SameVarPair>>
    /\ \E k \in 1..Len(logs[1]) :
          /\ logs[1][k].rule = "flatten"
          /\ logs[1][k].res.target = TupleNode(<<Name("i"), Name("i")>>)
    /\ \E k \in 1..Len(trees[2].body) :
          /\ trees[2].body[k].kind = "For"
          /\ trees[2].body[k].target = TupleNode(<<Name("i"), Name("i")>>)

(* C28: the body a pass returns, the imports the pass put in left out,  *)
(* is the input's top-level statements one for one and in their order:   *)
(* as many statements, the k-th being the input's k-th statement or the  *)
(* statement built in its place.  (A statement the engine builds without *)
(* a line has lineno 0; a flattened loop has the line of its outer loop.) *)
C28_TopLevelSequenceKept ==
    passes >= 1 =>
        LET input == trees[1].body
            output == SelectSeq(trees[2].body,
                                LAMBDA x : ~(x.kind = "Import" /\ x.lineno = 0))
        IN /\ Len(output) = Len(input)
           /\ \A k \in 1..Len(input) :
                 k <= Len(output) => output[k].lineno \in {input[k].lineno, 0}

(* C29: the loop flatten_nested_loop builds has no else clause and has   *)
(* the line and the column of the outer loop, and an else clause does    *)
(* not keep a pair from being flattened: a pair that meets the           *)
(* precondition is flattened whether or not its loops have else clauses, *)
(* and the body of the flattened loop is the inner loop's body alone.    *)
C29_FlattenedHasNoElse ==
    \A c \in Calls :
        LET n == CallAt(c).node
            res == CallAt(c).res
        IN /\ CallAt(c).rule = "flatten" =>
                 /\ res.orelse = <<>>
                 /\ res.lineno = n.lineno
                 /\ res.col_offset = n.col_offset
           /\ FlattenPrecondition(n) =>
                 /\ CallAt(c).rule = "flatten"
                 /\ res.body = n.body[1].body

C29_Witness ==
    /\ passes >= 1
    /\ \E k \in 1..Len(logs[1]) :
          /\ logs[1][k].rule = "flatten"
          /\ logs[1][k].node.orelse # <<>>
          /\ logs[1][k].node.body[1].orelse # <<>>
          /\ logs[1][k].node.col_offset > 0
          /\ logs[1][k].res.orelse = <<>>
          /\ logs[1][k].res.col_offset = logs[1][k].node.col_offset

(* C30 as stated: after the linking step of analyze and of the engine's  *)
(* visit_Module every node but the root, of whatever class, refers back  *)
(* to the node that holds it, the root refers to none, the walks up end  *)
(* at the root after depth steps, and find_module_node finds the module  *)
(* from every node of the tree once the pass has replaced loops.         *)
C30_EveryNodeLinked ==
    /\ (analyzed /\ passes = 0) =>
          /\ WellLinked(trees[1], link_parents(trees[1]))
          /\ EveryHolderIsParent(link_parents(trees[1]))
    /\ passes = 1 =>
          /\ WellLinked(trees[1], set_parents(Root(trees[1])))
          /\ EveryHolderIsParent(set_parents(Root(trees[1])))

(* C30 amended: the same of the statement, expression and alias nodes of *)
(* a parsed tree, which are the nodes the walks start from.  (A context  *)
(* or operator object is one object held by many nodes and refers to the *)
(* holder linked last.)  The links are looked at when analyze has        *)
(* returned and when the first pass, which linked the parsed tree, has.  *)
C30_TreeNodesLinked ==
    /\ (analyzed /\ passes = 0) => WellLinked(trees[1], link_parents(trees[1]))
    /\ passes = 1 => WellLinked(trees[1], set_parents(Root(trees[1])))

C30_Witness ==
    /\ analyzed
    /\ passes = 1
    /\ source = <<ElseInFunc>>
    /\ Fired(1, "flatten")
    /\ \E path \in Paths(trees[1]) :
          /\ Len(path) >= 5
          /\ climb(Parents(set_parents(Root(trees[1]))), NodeId(path), 0).steps
                = Len(path)
          /\ climb(Parents(link_parents(trees[1])), NodeId(path), 0).top
                = NodeId(<<>>)

====
